---- MODULE Spec2Model ----
(***************************************************************************)
(* The clarification wizard of deep_research.py: a Gradio Blocks form with *)
(* four session State values, a topic section, a follow-up section with    *)
(* three answer textboxes, and a report area, driven by two async handlers *)
(* (run_questions_generation, run_full) that call the external             *)
(* ResearchManager.                                                        *)
(*                                                                         *)
(* Handlers are split at their await points.  The three listeners bound to *)
(* run_questions_generation share one handler function and therefore run   *)
(* one at a time; the listener bound to run_full is a different function   *)
(* and runs independently of them.                                         *)
(***************************************************************************)
EXTENDS Integers, Sequences, FiniteSets, TLC

VARIABLES
    query_textbox,      \* value of gr.Textbox query_textbox
    stored_query,       \* gr.State
    stored_q1,          \* gr.State
    stored_q2,          \* gr.State
    stored_q3,          \* gr.State
    first_section,      \* gr.Column: [visible]
    followup_section,   \* gr.Column: [visible]
    q1,                 \* gr.Textbox: [label, value, interactive]
    q2,
    q3,
    report,             \* value of gr.Markdown report
    genPc,              \* position of the run_questions_generation handler
    genTrigger,         \* listener that started the handler in flight
    rqg_query,          \* run_questions_generation: parameter query
    questions,          \* run_questions_generation: local questions
    genStatus,          \* how the last finished generation attempt ended
    runPc,              \* position of the run_full handler
    run_args,           \* run_full: its seven parameters
    enriched_query,     \* run_full: local enriched_query, passed to the manager
    chunk,              \* run_full: loop variable chunk
    emitted,            \* history: chunks produced by the manager's stream
    rendered            \* history: values written to the report area

vars == <<query_textbox, stored_query, stored_q1, stored_q2, stored_q3,
          first_section, followup_section, q1, q2, q3, report,
          genPc, genTrigger, rqg_query, questions, genStatus,
          runPc, run_args, enriched_query, chunk, emitted, rendered>>

uiVars  == <<query_textbox, stored_query, stored_q1, stored_q2, stored_q3,
             first_section, followup_section, q1, q2, q3>>
genVars == <<genPc, genTrigger, rqg_query, questions, genStatus>>
runVars == <<runPc, run_args, enriched_query, chunk, emitted, rendered>>

-----------------------------------------------------------------------------
(* Values *)

\* Python None, the initial value of gr.State()
None == [set |-> FALSE, v |-> ""]
Some(x) == [set |-> TRUE, v |-> x]

\* str() of a value as an f-string formats it
Str(o) == IF o.set THEN o.v ELSE "None"

\* questions_generator_agent.Question
Question(text) == [question |-> text]

\* Longest chunk stream the manager produces in the model
MaxChunks == 3

\* What the user can type into the topic textbox
TopicTexts == {"", "AI"}

\* What the user can type into an answer textbox
AnswerTexts == {"", "yes"}

\* Questions objects the manager's run() can return: two of three questions,
\* one of two and one of four
RespA == <<Question("W1"), Question("W2"), Question("W3")>>
RespB == <<Question("H1"), Question("H2"), Question("H3")>>
RespShort == <<Question("W1"), Question("W2")>>
RespLong == <<Question("H1"), Question("H2"), Question("H3"), Question("H4")>>
Responses == {RespA, RespB, RespShort, RespLong}

\* Text fragments the manager's run_full() stream can yield
Chunks == {"a", "b"}

NoQuestions == <<>>
NoArgs == <<>>
NoChunk == None

-----------------------------------------------------------------------------
(* enrichQuery: the f-string of lines 8-18, literal pieces and slots *)

Lit0 == "\n        Main Topic:\n        "
Lit1 == "\n        Clarifications:\n        Q1: "
Lit2 == "\n        A1: "
Lit3 == "\n        Q2: "
Lit4 == "\n        A2: "
Lit5 == "\n        Q3: "
Lit6 == "\n        A3: "
Lit7 == "\n    "

enrichQuery_Swapped(query, question1, question2, question3, answer1, answer2, answer3) ==
    Lit0 \o query \o Lit1 \o question1 \o Lit2 \o answer1
         \o Lit3 \o question2 \o Lit4 \o answer3
         \o Lit5 \o question3 \o Lit6 \o answer2 \o Lit7

enrichQuery(query, question1, question2, question3, answer1, answer2, answer3) ==
    Lit0 \o query \o Lit1 \o question1 \o Lit2 \o answer1
         \o Lit3 \o question2 \o Lit4 \o answer2
         \o Lit5 \o question3 \o Lit6 \o answer3 \o Lit7

-----------------------------------------------------------------------------
(* Initial state: the Blocks as constructed, lines 54-76 *)

Init ==
    /\ query_textbox = ""
    /\ stored_query = None
    /\ stored_q1 = None
    /\ stored_q2 = None
    /\ stored_q3 = None
    /\ first_section = [visible |-> TRUE]
    /\ followup_section = [visible |-> FALSE]
    /\ q1 = [label |-> "", value |-> "", interactive |-> TRUE]
    /\ q2 = [label |-> "q2", value |-> "", interactive |-> TRUE]
    /\ q3 = [label |-> "q3", value |-> "", interactive |-> TRUE]
    /\ report = ""
    /\ genPc = "idle"
    /\ genTrigger = "none"
    /\ rqg_query = None
    /\ questions = NoQuestions
    /\ genStatus = "none"
    /\ runPc = "idle"
    /\ run_args = NoArgs
    /\ enriched_query = None
    /\ chunk = NoChunk
    /\ emitted = <<>>
    /\ rendered = <<>>

-----------------------------------------------------------------------------
(* The user typing into the visible inputs *)

EditTopic ==
    /\ first_section.visible
    /\ \E t \in TopicTexts \ {query_textbox} : query_textbox' = t
    /\ UNCHANGED <<stored_query, stored_q1, stored_q2, stored_q3,
                   first_section, followup_section, q1, q2, q3, report>>
    /\ UNCHANGED genVars
    /\ UNCHANGED runVars

EditAnswer ==
    /\ followup_section.visible
    /\ \E a \in AnswerTexts :
          \/ /\ q1.interactive /\ a # q1.value
             /\ q1' = [q1 EXCEPT !.value = a]
             /\ UNCHANGED <<q2, q3>>
          \/ /\ q2.interactive /\ a # q2.value
             /\ q2' = [q2 EXCEPT !.value = a]
             /\ UNCHANGED <<q1, q3>>
          \/ /\ q3.interactive /\ a # q3.value
             /\ q3' = [q3 EXCEPT !.value = a]
             /\ UNCHANGED <<q1, q2>>
    /\ UNCHANGED <<query_textbox, stored_query, stored_q1, stored_q2, stored_q3,
                   first_section, followup_section, report>>
    /\ UNCHANGED genVars
    /\ UNCHANGED runVars

-----------------------------------------------------------------------------
(* Question generation: run_questions_generation and its three listeners *)

\* A listener fires: the handler starts with inputs=query_textbox and
\* suspends in `await ResearchManager().run(query)` (line 37)
StartGeneration(trigger) ==
    /\ genPc = "idle"
    /\ genPc' = "awaiting"
    /\ genTrigger' = trigger
    /\ rqg_query' = Some(query_textbox)
    /\ UNCHANGED <<questions, genStatus, report>>
    /\ UNCHANGED uiVars
    /\ UNCHANGED runVars

\* run_button.click, lines 78-82
RunButtonClick ==
    /\ first_section.visible
    /\ StartGeneration("run_button.click")

\* query_textbox.submit, lines 83-87
QueryTextboxSubmit ==
    /\ first_section.visible
    /\ StartGeneration("query_textbox.submit")

\* regenerate_button.click, lines 105-109
RegenerateButtonClick ==
    /\ followup_section.visible
    /\ StartGeneration("regenerate_button.click")

\* The awaited ResearchManager().run(query) returns a Questions object
ManagerRunReturns ==
    /\ genPc = "awaiting"
    /\ \E r \in Responses : questions' = r
    /\ genPc' = "resumed"
    /\ UNCHANGED <<genTrigger, rqg_query, genStatus, report>>
    /\ UNCHANGED uiVars
    /\ UNCHANGED runVars

\* The awaited ResearchManager().run(query) raises: the handler ends in a
\* fault and no output component is written
ManagerRunRaises ==
    /\ genPc = "awaiting"
    /\ genPc' = "idle"
    /\ genStatus' = "fault"
    /\ genTrigger' = "none"
    /\ rqg_query' = None
    /\ questions' = NoQuestions
    /\ UNCHANGED report
    /\ UNCHANGED uiVars
    /\ UNCHANGED runVars

\* Lines 38-52 with a mutation: the labels of q2 and q3 are exchanged
run_questions_generation_Mislabel ==
    /\ genPc = "resumed"
    /\ IF Len(questions) >= 3
       THEN LET q1_text == questions[1].question
                q2_text == questions[2].question
                q3_text == questions[3].question
            IN /\ stored_query' = rqg_query
               /\ stored_q1' = Some(q1_text)
               /\ stored_q2' = Some(q2_text)
               /\ stored_q3' = Some(q3_text)
               /\ followup_section' = [followup_section EXCEPT !.visible = TRUE]
               /\ first_section' = [first_section EXCEPT !.visible = TRUE]
               /\ q1' = [label |-> q1_text, value |-> "", interactive |-> TRUE]
               /\ q2' = [label |-> q3_text, value |-> "", interactive |-> TRUE]
               /\ q3' = [label |-> q2_text, value |-> "", interactive |-> TRUE]
               /\ genStatus' = "ok"
       ELSE /\ genStatus' = "fault"
            /\ UNCHANGED <<stored_query, stored_q1, stored_q2, stored_q3,
                           followup_section, first_section, q1, q2, q3>>
    /\ genPc' = "idle"
    /\ genTrigger' = "none"
    /\ rqg_query' = None
    /\ questions' = NoQuestions
    /\ UNCHANGED <<query_textbox, report>>
    /\ UNCHANGED runVars

\* Lines 38-52 with a mutation: a short result still stores the topic
run_questions_generation_PartialWrite ==
    /\ genPc = "resumed"
    /\ IF Len(questions) >= 3
       THEN LET q1_text == questions[1].question
                q2_text == questions[2].question
                q3_text == questions[3].question
            IN /\ stored_query' = rqg_query
               /\ stored_q1' = Some(q1_text)
               /\ stored_q2' = Some(q2_text)
               /\ stored_q3' = Some(q3_text)
               /\ followup_section' = [followup_section EXCEPT !.visible = TRUE]
               /\ first_section' = [first_section EXCEPT !.visible = TRUE]
               /\ q1' = [label |-> q1_text, value |-> "", interactive |-> TRUE]
               /\ q2' = [label |-> q2_text, value |-> "", interactive |-> TRUE]
               /\ q3' = [label |-> q3_text, value |-> "", interactive |-> TRUE]
               /\ genStatus' = "ok"
       ELSE /\ genStatus' = "fault"
            /\ stored_query' = rqg_query
            /\ UNCHANGED <<stored_q1, stored_q2, stored_q3,
                           followup_section, first_section, q1, q2, q3>>
    /\ genPc' = "idle"
    /\ genTrigger' = "none"
    /\ rqg_query' = None
    /\ questions' = NoQuestions
    /\ UNCHANGED <<query_textbox, report>>
    /\ UNCHANGED runVars

\* Lines 38-52: index positions 0, 1, 2 of the result (an IndexError on a
\* result shorter than three ends the handler in a fault, nothing written),
\* then return the nine output values, which the toolkit writes to
\* stored_query, stored_q1..3, followup_section, first_section, q1, q2, q3
run_questions_generation ==
    /\ genPc = "resumed"
    /\ IF Len(questions) >= 3
       THEN LET q1_text == questions[1].question
                q2_text == questions[2].question
                q3_text == questions[3].question
            IN /\ stored_query' = rqg_query
               /\ stored_q1' = Some(q1_text)
               /\ stored_q2' = Some(q2_text)
               /\ stored_q3' = Some(q3_text)
               /\ followup_section' = [followup_section EXCEPT !.visible = TRUE]
               /\ first_section' = [first_section EXCEPT !.visible = TRUE]
               /\ q1' = [label |-> q1_text, value |-> "", interactive |-> TRUE]
               /\ q2' = [label |-> q2_text, value |-> "", interactive |-> TRUE]
               /\ q3' = [label |-> q3_text, value |-> "", interactive |-> TRUE]
               /\ genStatus' = "ok"
       ELSE /\ genStatus' = "fault"
            /\ UNCHANGED <<stored_query, stored_q1, stored_q2, stored_q3,
                           followup_section, first_section, q1, q2, q3>>
    /\ genPc' = "idle"
    /\ genTrigger' = "none"
    /\ rqg_query' = None
    /\ questions' = NoQuestions
    /\ UNCHANGED <<query_textbox, report>>
    /\ UNCHANGED runVars

-----------------------------------------------------------------------------
(* Research: run_full and its listener continue_button.click *)

Resting == {"idle", "done", "fault"}

\* continue_button.click with a mutation: the topic is read from the textbox
ContinueButtonClick_LiveTopic ==
    /\ followup_section.visible
    /\ runPc \in Resting
    /\ run_args' = <<Some(query_textbox), stored_q1, stored_q2, stored_q3,
                     q1.value, q2.value, q3.value>>
    /\ enriched_query' = Some(enrichQuery(query_textbox, Str(stored_q1),
                                 Str(stored_q2), Str(stored_q3),
                                 q1.value, q2.value, q3.value))
    /\ runPc' = "called"
    /\ chunk' = NoChunk
    /\ emitted' = <<>>
    /\ rendered' = <<>>
    /\ UNCHANGED report
    /\ UNCHANGED uiVars
    /\ UNCHANGED genVars

\* continue_button.click with a mutation: the stored values are cleared
ContinueButtonClick_Discard ==
    /\ followup_section.visible
    /\ runPc \in Resting
    /\ run_args' = <<stored_query, stored_q1, stored_q2, stored_q3,
                     q1.value, q2.value, q3.value>>
    /\ enriched_query' = Some(enrichQuery(Str(stored_query), Str(stored_q1),
                                 Str(stored_q2), Str(stored_q3),
                                 q1.value, q2.value, q3.value))
    /\ runPc' = "called"
    /\ chunk' = NoChunk
    /\ emitted' = <<>>
    /\ rendered' = <<>>
    /\ stored_query' = None
    /\ stored_q1' = None
    /\ stored_q2' = None
    /\ stored_q3' = None
    /\ UNCHANGED <<query_textbox, first_section, followup_section, q1, q2, q3,
                   report>>
    /\ UNCHANGED genVars

\* continue_button.click, lines 91-103, entering run_full, lines 22-33: the
\* seven inputs are the four State values and the values of q1, q2, q3;
\* enriched_query is built and handed to ResearchManager().run_full
ContinueButtonClick ==
    /\ followup_section.visible
    /\ runPc \in Resting
    /\ run_args' = <<stored_query, stored_q1, stored_q2, stored_q3,
                     q1.value, q2.value, q3.value>>
    /\ enriched_query' = Some(enrichQuery(Str(stored_query), Str(stored_q1),
                                 Str(stored_q2), Str(stored_q3),
                                 q1.value, q2.value, q3.value))
    /\ runPc' = "called"
    /\ chunk' = NoChunk
    /\ emitted' = <<>>
    /\ rendered' = <<>>
    /\ UNCHANGED report
    /\ UNCHANGED uiVars
    /\ UNCHANGED genVars

\* Line 33: the manager's stream produces its next chunk.  The parameters
\* and enriched_query are not read again after the call and are dropped.
StreamChunk ==
    /\ runPc \in {"called", "fetching"}
    /\ Len(emitted) < MaxChunks
    /\ \E c \in Chunks :
          /\ chunk' = Some(c)
          /\ emitted' = Append(emitted, c)
    /\ runPc' = "yielding"
    /\ run_args' = NoArgs
    /\ enriched_query' = None
    /\ UNCHANGED <<rendered, report>>
    /\ UNCHANGED uiVars
    /\ UNCHANGED genVars

\* Line 34 with a mutation: a chunk equal to the one displayed is skipped
YieldChunk_Dedup ==
    /\ runPc = "yielding"
    /\ IF chunk.v = report
       THEN UNCHANGED <<report, rendered>>
       ELSE /\ report' = chunk.v
            /\ rendered' = Append(rendered, chunk.v)
    /\ runPc' = "fetching"
    /\ UNCHANGED <<run_args, enriched_query, chunk, emitted>>
    /\ UNCHANGED uiVars
    /\ UNCHANGED genVars

\* Line 34 with a mutation: the chunk is appended to the displayed report
YieldChunk_Append ==
    /\ runPc = "yielding"
    /\ report' = report \o chunk.v
    /\ rendered' = Append(rendered, chunk.v)
    /\ runPc' = "fetching"
    /\ UNCHANGED <<run_args, enriched_query, chunk, emitted>>
    /\ UNCHANGED uiVars
    /\ UNCHANGED genVars

\* Line 34: `yield chunk`; the toolkit sets the value of report (the single
\* output) to the yielded value
YieldChunk ==
    /\ runPc = "yielding"
    /\ report' = chunk.v
    /\ rendered' = Append(rendered, chunk.v)
    /\ runPc' = "fetching"
    /\ UNCHANGED <<run_args, enriched_query, chunk, emitted>>
    /\ UNCHANGED uiVars
    /\ UNCHANGED genVars

\* Line 33: the manager's stream is exhausted, run_full returns
StreamEnd ==
    /\ runPc \in {"called", "fetching"}
    /\ runPc' = "done"
    /\ run_args' = NoArgs
    /\ enriched_query' = None
    /\ UNCHANGED <<chunk, emitted, rendered, report>>
    /\ UNCHANGED uiVars
    /\ UNCHANGED genVars

\* Line 33: the manager's stream raises, run_full ends in a fault
StreamRaises ==
    /\ runPc \in {"called", "fetching"}
    /\ runPc' = "fault"
    /\ run_args' = NoArgs
    /\ enriched_query' = None
    /\ UNCHANGED <<chunk, emitted, rendered, report>>
    /\ UNCHANGED uiVars
    /\ UNCHANGED genVars

-----------------------------------------------------------------------------
(* Specifications *)

Next ==
    \/ EditTopic
    \/ EditAnswer
    \/ RunButtonClick
    \/ QueryTextboxSubmit
    \/ RegenerateButtonClick
    \/ ManagerRunReturns
    \/ ManagerRunRaises
    \/ run_questions_generation
    \/ ContinueButtonClick
    \/ StreamChunk
    \/ YieldChunk
    \/ StreamEnd
    \/ StreamRaises

Spec == Init /\ [][Next]_vars

\* Texts for the enrichQuery check: empty, plain, and one that also occurs
\* in the template's own text
EnrichTexts == {"", "AI", "Q1"}

\* The wizard right after a successful generation, with the topic, the
\* questions and the answers ranging over EnrichTexts
InitEnrich ==
    /\ query_textbox \in EnrichTexts
    /\ stored_query = Some(query_textbox)
    /\ \E t1 \in EnrichTexts, t2 \in EnrichTexts, t3 \in EnrichTexts :
          /\ stored_q1 = Some(t1)
          /\ stored_q2 = Some(t2)
          /\ stored_q3 = Some(t3)
          /\ \E a1 \in EnrichTexts, a2 \in EnrichTexts, a3 \in EnrichTexts :
                /\ q1 = [label |-> t1, value |-> a1, interactive |-> TRUE]
                /\ q2 = [label |-> t2, value |-> a2, interactive |-> TRUE]
                /\ q3 = [label |-> t3, value |-> a3, interactive |-> TRUE]
    /\ first_section = [visible |-> TRUE]
    /\ followup_section = [visible |-> TRUE]
    /\ report = ""
    /\ genPc = "idle"
    /\ genTrigger = "none"
    /\ rqg_query = None
    /\ questions = NoQuestions
    /\ genStatus = "ok"
    /\ runPc = "idle"
    /\ run_args = NoArgs
    /\ enriched_query = None
    /\ chunk = NoChunk
    /\ emitted = <<>>
    /\ rendered = <<>>

NextEnrich == ContinueButtonClick

SpecEnrich == InitEnrich /\ [][NextEnrich]_vars

-----------------------------------------------------------------------------
(* Helpers for the properties *)

IsPrefix(s, t) == Len(s) <= Len(t) /\ SubSeq(t, 1, Len(s)) = s

RECURSIVE Concat(_)
Concat(seq) == IF seq = <<>> THEN "" ELSE seq[1] \o Concat(Tail(seq))

\* Number of positions of t at which s occurs as a substring
Occurrences(s, t) ==
    Cardinality({i \in 1..(Len(t) - Len(s) + 1) : SubSeq(t, i, i + Len(s) - 1) = s})

\* The seven texts run_full was called with, in the order
\* topic, Q1, A1, Q2, A2, Q3, A3
SlotTexts ==
    <<Str(run_args[1]), Str(run_args[2]), run_args[5], Str(run_args[3]),
      run_args[6], Str(run_args[4]), run_args[7]>>

SlotLabels == <<Lit0, Lit1, Lit2, Lit3, Lit4, Lit5, Lit6>>

\* Position in the output at which the text of slot k begins
RECURSIVE SlotStart(_)
SlotStart(k) ==
    IF k = 1 THEN 1 + Len(SlotLabels[1])
    ELSE SlotStart(k - 1) + Len(SlotTexts[k - 1]) + Len(SlotLabels[k])

GenerationSucceeds == genPc = "resumed" /\ Len(questions) >= 3 /\ genPc' = "idle"

GenerationFails ==
    \/ genPc = "resumed" /\ Len(questions) < 3 /\ genPc' = "idle"
    \/ genPc = "awaiting" /\ genPc' = "idle"

ContinueTriggered == runPc \in Resting /\ runPc' = "called"

-----------------------------------------------------------------------------
(* Properties *)

\* C1: every Continue invokes the research stream once, with the enriched
\* query built from the stored topic, the stored questions and the current
\* values of the three answer fields; the stored values are set at that
\* moment, the topic textbox is not read, and the stream is invoked at no
\* other step.
C1_ContinueUsesStored ==
    [][ /\ ContinueTriggered =>
            /\ stored_query.set /\ stored_q1.set /\ stored_q2.set /\ stored_q3.set
            /\ run_args' = <<stored_query, stored_q1, stored_q2, stored_q3,
                             q1.value, q2.value, q3.value>>
            /\ enriched_query' = Some(enrichQuery(stored_query.v, stored_q1.v,
                                          stored_q2.v, stored_q3.v,
                                          q1.value, q2.value, q3.value))
        /\ (enriched_query'.set /\ enriched_query' # enriched_query)
              => ContinueTriggered
        /\ enriched_query'.set => (enriched_query' = enriched_query \/ ~enriched_query.set)
      ]_vars

C1_Witness ==
    /\ runPc = "called"
    /\ enriched_query.set
    /\ query_textbox # stored_query.v
    /\ q2.value = "yes"
    /\ q3.value = ""

\* C2: the values written to the report area are the chunks of the stream,
\* in the order produced: at every moment the writes are a prefix of the
\* chunks lacking at most the chunk being yielded, and when the stream has
\* ended or raised every chunk has been written.
C2_RenderedInOrder ==
    /\ IsPrefix(rendered, emitted)
    /\ Len(emitted) - Len(rendered) = (IF runPc = "yielding" THEN 1 ELSE 0)
    /\ runPc \in {"done", "fault"} => rendered = emitted

C2_Witness ==
    /\ runPc = "done"
    /\ Len(rendered) >= 2
    /\ rendered[1] = "b"
    /\ rendered[2] = "b"

\* C3 as stated: when the stream has ended after at least one chunk, the
\* report shown is the concatenation of all its chunks.
C3_ReportIsConcatenation ==
    (runPc = "done" /\ emitted # <<>>) => report = Concat(emitted)

\* C3 amended: when the stream has ended after at least one chunk, the
\* report shown is the last chunk alone.
C3_ReportIsLastChunk ==
    (runPc = "done" /\ emitted # <<>>) => report = emitted[Len(emitted)]

C3_Witness ==
    /\ runPc = "done"
    /\ Len(emitted) >= 2
    /\ emitted[1] = "a"
    /\ report = "b"

\* C4: a regenerate that completes leaves the stored topic as it was.
C4_RegenerateKeepsTopic ==
    [][ (genTrigger = "regenerate_button.click" /\ genPc = "resumed"
            /\ genPc' = "idle")
          => stored_query' = stored_query ]_vars

\* C5: a successful generation stores the three returned questions, labels
\* answer field i with question i and empties its value; and whenever
\* questions are stored, the label of answer field i is stored question i.
C5_LabelsAreStoredQuestions ==
    /\ [](stored_q1.set => q1.label = stored_q1.v)
    /\ [](stored_q2.set => q2.label = stored_q2.v)
    /\ [](stored_q3.set => q3.label = stored_q3.v)
    /\ [][ GenerationSucceeds =>
              /\ stored_q1' = Some(questions[1].question)
              /\ stored_q2' = Some(questions[2].question)
              /\ stored_q3' = Some(questions[3].question)
              /\ q1'.label = questions[1].question /\ q1'.value = ""
              /\ q2'.label = questions[2].question /\ q2'.value = ""
              /\ q3'.label = questions[3].question /\ q3'.value = ""
              /\ genStatus' = "ok" ]_vars

C5_Witness ==
    /\ genStatus = "ok"
    /\ genPc = "idle"
    /\ stored_q1 = Some("W1") /\ stored_q2 = Some("W2") /\ stored_q3 = Some("W3")
    /\ q1 = [label |-> "W1", value |-> "", interactive |-> TRUE]
    /\ q2.label = "W2"
    /\ q3.label = "W3"

\* C6: a successful submit from the initial state leaves the follow-up
\* section visible and the topic section hidden.
C6_SubmitHidesTopicSection ==
    [][ (GenerationSucceeds /\ ~followup_section.visible
            /\ genTrigger \in {"run_button.click", "query_textbox.submit"})
          => (followup_section'.visible /\ ~first_section'.visible) ]_vars

\* C7: the controls that start a generation (Run, submit) and the control
\* that starts the research (Continue) are never both available, and a
\* generation call and a research stream are never in flight together.
C7_ControlsMutuallyExclusive ==
    /\ ~(first_section.visible /\ followup_section.visible)
    /\ ~(genPc # "idle" /\ runPc \notin Resting)

\* C8 as stated: each of the seven inputs occurs exactly once as a substring
\* of the output of enrichQuery.
C8_EachInputOccursOnce ==
    runPc = "called" =>
        \A k \in 1..7 : Occurrences(SlotTexts[k], enriched_query.v) = 1

\* C8 amended: the output of enrichQuery is the template with each of the
\* seven inputs inserted verbatim in its own slot, the slots in the order
\* topic, Q1, A1, Q2, A2, Q3, A3, each right after its label, and nothing
\* after the last slot but the template's closing text.
C8_InputsInSlotsInOrder ==
    runPc = "called" =>
        LET out == enriched_query.v
        IN /\ \A k \in 1..7 :
                 /\ SubSeq(out, SlotStart(k) - Len(SlotLabels[k]), SlotStart(k) - 1)
                       = SlotLabels[k]
                 /\ SubSeq(out, SlotStart(k), SlotStart(k) + Len(SlotTexts[k]) - 1)
                       = SlotTexts[k]
           /\ SubSeq(out, SlotStart(7) + Len(SlotTexts[7]), Len(out)) = Lit7

C8_Witness ==
    /\ runPc = "called"
    /\ run_args[1] = Some("AI")
    /\ run_args[2] = Some("Q1")
    /\ run_args[6] = ""
    /\ run_args[7] = "AI"

\* C9 as stated: after a Continue the stored topic and the stored questions
\* are no longer held.
C9_ContinueDiscards ==
    runPc = "done" =>
        (~stored_query.set /\ ~stored_q1.set /\ ~stored_q2.set /\ ~stored_q3.set)

\* C9 amended: no step of a Continue changes the stored topic, the stored
\* questions or the answer fields, and once a Continue has been triggered
\* the stored topic and questions are still held.
C9_ContinueKeepsSessionState ==
    /\ [][ runPc' # runPc =>
              UNCHANGED <<stored_query, stored_q1, stored_q2, stored_q3,
                          q1, q2, q3>> ]_vars
    /\ [](runPc # "idle" =>
              (stored_query.set /\ stored_q1.set /\ stored_q2.set /\ stored_q3.set))

C9_Witness ==
    /\ runPc = "done"
    /\ emitted # <<>>
    /\ stored_query = Some("AI")
    /\ stored_q1.set
    /\ q1.value = "yes"

\* C10: a generation attempt whose call raises or returns fewer than three
\* questions ends in a fault, and no step of it writes the stored topic, the
\* stored questions, either section's visibility or an answer field.
C10_FailedGenerationWritesNothing ==
    [][ /\ GenerationFails => genStatus' = "fault"
        /\ (genPc' # genPc /\ ~GenerationSucceeds) =>
              UNCHANGED <<stored_query, stored_q1, stored_q2, stored_q3,
                          first_section, followup_section, q1, q2, q3>>
      ]_vars

C10_Witness ==
    /\ genStatus = "fault"
    /\ genPc = "idle"
    /\ stored_query = Some("AI")
    /\ query_textbox = ""
    /\ stored_q1 = Some("W1")
    /\ q1.value = "yes"

====
